---- MODULE Spec2Model ----
(***************************************************************************)
(* TotpModal (src/shared/components/common/totp-modal.tsx): the six-cell   *)
(* one-time-code dialog of lemmy-ui.  The component's state, its event     *)
(* handlers and its lifecycle callbacks as a state machine.                *)
(*                                                                         *)
(* Strings of the program (state.totp, pasted text, event.target.value)    *)
(* are sequences of one-character strings, so that they can be indexed.    *)
(* setState is Inferno's: outside a render it is applied synchronously,    *)
(* and it is ignored once the component is unmounted.                      *)
(***************************************************************************)
EXTENDS Integers, Sequences, FiniteSets, Bags, TLC

\* totp-modal.tsx:26
TOTP_LENGTH == 6

\* Bounds of the model: QR renders in flight, and QR renders started over
\* one life of the component.
MaxRenders == 2
MaxShows == 2

\* Bounds of the specification of the code entry (Spec).  The props are the
\* leading MaxTypes entries of TypeList and the leading MaxUrls entries of
\* SecretUrlList; the clipboard holds one of the leading MaxPasteTexts
\* entries of PasteTextList; keys are typed into the leading MaxTypedCells
\* cells, every character of TypedChars into the leading MaxWideCells of
\* them and those of EveryCellChars into the others; at most MaxPending
\* onSubmit calls are unresolved at a time.
MaxTypes == 2
MaxUrls == 1
MaxPasteTexts == 6
MaxTypedCells == 6
MaxWideCells == 1
MaxPending == 2

\* The same bounds of the specification of the QR code (SpecQr).
MaxTypesQr == 3
MaxUrlsQr == 3
MaxPasteTextsQr == 1
MaxTypedCellsQr == 1
MaxWideCellsQr == 0
MaxPendingQr == 1

(***************************************************************************)
(* isNaN / Number on strings: ECMAScript StringToNumber.                   *)
(***************************************************************************)
DecimalDigit == {"0", "1", "2", "3", "4", "5", "6", "7", "8", "9"}
HexDigit == DecimalDigit \cup {"a", "b", "c", "d", "e", "f", "A", "B", "C", "D", "E", "F"}
OctalDigit == {"0", "1", "2", "3", "4", "5", "6", "7"}
BinaryDigit == {"0", "1"}
\* StrWhiteSpaceChar: WhiteSpace and LineTerminator.  A character that has no
\* escape in a string of this language is written as its code point.
StrWhiteSpaceChar ==
    { "\t", "\n", "U+000B", "\f", "\r", " ", "U+00A0", "U+1680",
      "U+2000", "U+2001", "U+2002", "U+2003", "U+2004", "U+2005", "U+2006",
      "U+2007", "U+2008", "U+2009", "U+200A", "U+2028", "U+2029", "U+202F",
      "U+205F", "U+3000", "U+FEFF" }
Sign == {"+", "-"}

AllIn(s, S) == \A k \in 1..Len(s) : s[k] \in S

DecimalDigits(s) == Len(s) >= 1 /\ AllIn(s, DecimalDigit)

Tail1(s) == SubSeq(s, 2, Len(s))

\* ExponentPart ::: (e|E) (+|-)? DecimalDigits
ExponentPart(s) ==
    /\ Len(s) >= 2
    /\ s[1] \in {"e", "E"}
    /\ IF s[2] \in Sign THEN DecimalDigits(SubSeq(s, 3, Len(s)))
                        ELSE DecimalDigits(Tail1(s))

\* DecimalDigits . DecimalDigits? | . DecimalDigits | DecimalDigits
Mantissa(s) ==
    \/ DecimalDigits(s)
    \/ \E d \in 1..Len(s) :
          /\ s[d] = "."
          /\ AllIn(SubSeq(s, 1, d - 1), DecimalDigit)
          /\ AllIn(SubSeq(s, d + 1, Len(s)), DecimalDigit)
          /\ Len(s) >= 2

Infinity == <<"I", "n", "f", "i", "n", "i", "t", "y">>

StrUnsignedDecimalLiteral(s) ==
    \/ s = Infinity
    \/ \E m \in 1..Len(s) :
          /\ Mantissa(SubSeq(s, 1, m))
          /\ (m = Len(s) \/ ExponentPart(SubSeq(s, m + 1, Len(s))))

StrDecimalLiteral(s) ==
    IF Len(s) >= 1 /\ s[1] \in Sign THEN StrUnsignedDecimalLiteral(Tail1(s))
                                    ELSE StrUnsignedDecimalLiteral(s)

\* 0x / 0o / 0b literals: unsigned, at least one digit
NonDecimalIntegerLiteral(s) ==
    /\ Len(s) >= 3
    /\ s[1] = "0"
    /\ \/ s[2] \in {"x", "X"} /\ AllIn(SubSeq(s, 3, Len(s)), HexDigit)
       \/ s[2] \in {"o", "O"} /\ AllIn(SubSeq(s, 3, Len(s)), OctalDigit)
       \/ s[2] \in {"b", "B"} /\ AllIn(SubSeq(s, 3, Len(s)), BinaryDigit)

RECURSIVE TrimStart(_)
TrimStart(s) ==
    IF Len(s) >= 1 /\ s[1] \in StrWhiteSpaceChar THEN TrimStart(Tail1(s)) ELSE s

RECURSIVE TrimEnd(_)
TrimEnd(s) ==
    IF Len(s) >= 1 /\ s[Len(s)] \in StrWhiteSpaceChar
    THEN TrimEnd(SubSeq(s, 1, Len(s) - 1)) ELSE s

\* Number(s) is NaN: s, with white space trimmed, is neither empty nor a
\* numeric literal.  (An overflowing literal is Infinity, not NaN.)
NumberIsNaN(s) ==
    LET t == TrimEnd(TrimStart(s)) IN
    ~ (t = <<>> \/ StrDecimalLiteral(t) \/ NonDecimalIntegerLiteral(t))

(***************************************************************************)
(* Inputs of the model.                                                    *)
(***************************************************************************)
\* Characters a key press can put into a cell (maxLength = 1): two digits, a
\* space and a letter.
TypedChars == {"1", "2", " ", "a"}
\* Those of them typed into every cell: a digit and a letter.
EveryCellChars == {"1", "a"}
\* Clipboard texts.
PasteTextList ==
    << <<"2">>, <<>>, <<"1", "2", "3", "4", "5", "6">>,
       <<"1", "e", "3">>,
       <<"1", "2", "a", "4", "5", "6">>,
       <<"1", "2", "3", "4", "5", "6", "7">> >>
Keys == {"Backspace", "Other"}
ShowValues == {"undefined", "false", "true"}
\* type: "login" | "remove" | "generate"
TypeList == <<"login", "remove", "generate">>
VerifyTypes == {"login", "remove"}
GenerateTypes == {"generate"}
Types == VerifyTypes \cup GenerateTypes
\* secretUrl?: string, absent or present whatever the type is.
SecretUrlList == <<"undefined", "otpauth1", "otpauth2">>

\* The leading n entries of a list of inputs.
Leading(list, n) == {list[k] : k \in 1..(IF n < Len(list) THEN n ELSE Len(list))}

\* The inputs of a specification, from its bounds.
Scope ==
    [types |-> MaxTypes, urls |-> MaxUrls, pastes |-> MaxPasteTexts,
     cells |-> MaxTypedCells, wide |-> MaxWideCells, pending |-> MaxPending]
ScopeQr ==
    [types |-> MaxTypesQr, urls |-> MaxUrlsQr, pastes |-> MaxPasteTextsQr,
     cells |-> MaxTypedCellsQr, wide |-> MaxWideCellsQr, pending |-> MaxPendingQr]
Cells == 0..(TOTP_LENGTH - 1)
\* No cell: an index for which this.inputRefs holds no element.
NoCell == TOTP_LENGTH

VARIABLES
    totp,       \* state.totp
    qrCode,     \* state.qrCode: the object URL, as the secretUrl it was rendered
                \* from and the handleShow run that created it
    show,       \* props.show
    type,       \* props.type
    secretUrl,  \* props.secretUrl
    life,       \* "constructed", "mounted", "unmounted", "unmountFailed"
    importing,  \* componentDidMount is suspended at its await import(...)
    modal,      \* this.modal: "undefined", "created", "disposed"
    listeners,  \* the shown/hidden listeners are attached to the dialog element
    widget,     \* the bootstrap modal: "closed", "opening", "open", "closing"
    focus,      \* the cell holding the focus, or NoCell
    pending,    \* the onSubmit calls that have not resolved yet: a bag of arguments
    qrJobs,     \* handleShow continuations suspended at one of their awaits
    qrLog,      \* QR renders started, written and lost, secretUrl read by the
                \* latest (observation)
    last,       \* what the most recent handler did (observation)
    lastCall,   \* the most recent call made on the widget, "none" before the first
    run         \* the digits typed since the code was last empty (observation)

vars == <<totp, qrCode, show, type, secretUrl, life, importing, modal, listeners,
          widget, focus, pending, qrJobs, qrLog, last, lastCall, run>>

Ev(op, cell, text, submitted, focused, toasts, calls, threw) ==
    [op |-> op, cell |-> cell, text |-> text, submitted |-> submitted,
     focused |-> focused, toasts |-> toasts, calls |-> calls, threw |-> threw]

FreshRun == [clean |-> TRUE, keys |-> <<>>, calls |-> <<>>]
DirtyRun == [clean |-> FALSE, keys |-> <<>>, calls |-> <<>>]

\* The run goes on with a digit typed into a clean run, starts again whenever
\* the code is empty, and is spoilt by anything else.
RunAfter(isDigitKey, v, submitted, t) ==
    IF isDigitKey /\ run.clean
    THEN [clean |-> TRUE, keys |-> run.keys \o v, calls |-> run.calls \o submitted]
    ELSE IF t = <<>> THEN FreshRun ELSE DirtyRun

\* state.qrCode before the first render: the property is absent.
NoQr == [url |-> "unset", job |-> 0]

\* The component as constructed (state = { totp: "" }, nothing mounted), for
\* any props of the scope.
Constructed(sc) ==
    /\ totp = <<>>
    /\ qrCode = NoQr
    /\ show \in ShowValues
    /\ type \in Leading(TypeList, sc.types)
    /\ secretUrl \in Leading(SecretUrlList, sc.urls)
    /\ life = "constructed"
    /\ importing = FALSE
    /\ modal = "undefined"
    /\ listeners = FALSE
    /\ widget = "closed"
    /\ focus = NoCell
    /\ pending = EmptyBag
    /\ qrJobs = <<>>
    /\ qrLog = [started |-> 0, written |-> 0, lost |-> 0, latest |-> "undefined"]
    /\ last = Ev("none", NoCell, <<>>, <<>>, <<>>, 0, <<>>, FALSE)
    /\ lastCall = "none"
    /\ run = FreshRun

(***************************************************************************)
(* render, and what the framework and the browser do around the handlers.  *)
(***************************************************************************)
\* render: disabled={totp.length !== i}
Disabled(t, i) == Len(t) # i

\* render: value={totp[i] ?? ""}
Value(t, i) == IF i + 1 <= Len(t) THEN <<t[i + 1]>> ELSE <<>>

\* !!x of a show prop
Truthy(x) == x = "true"

\* Component.setState: ignored once the component is unmounted.
SetState(lf, old, new) == IF lf = "unmounted" THEN old ELSE new

\* this.inputRefs[k]: an element while the cells are rendered, else null/undefined.
HasRef(lf, k) == lf \in {"mounted", "unmountFailed"} /\ k \in Cells

\* this.inputRefs[k]?.focus(): the calls made, and the cell focused after it
\* (focus() does nothing on a disabled or undisplayed element).
FocusCalls(lf, k) == IF HasRef(lf, k) THEN <<k>> ELSE <<>>

\* A cell that the render after setState disables loses the focus; no cell
\* has it then.
Blurred(cur, t) == IF cur \in Cells /\ Disabled(t, cur) THEN NoCell ELSE cur

\* The cell focused after this.inputRefs[k]?.focus().
FocusAfter(lf, w, cur, t, k) ==
    IF HasRef(lf, k) /\ w # "closed" /\ ~Disabled(t, k) THEN k ELSE Blurred(cur, t)

\* The modal widget's show() and hide(): ignored while it is already in that
\* state or in a transition.
WidgetShow(w) == IF w = "closed" THEN "opening" ELSE w
WidgetHide(w) == IF w = "open" THEN "closing" ELSE w

\* The user can reach the cells while the dialog is displayed.
Interactive == widget # "closed" /\ life \in {"mounted", "unmountFailed"}

entryFrame == <<qrCode, show, type, secretUrl, life, importing, modal, listeners,
                widget, qrJobs, qrLog, lastCall>>

(***************************************************************************)
(* handleSubmit: the call of props.onSubmit, and its continuation once     *)
(* the promise has resolved.                                               *)
(***************************************************************************)
\* Mutant: no call is made while another one is in flight.
SubmittedExclusive(pend, arg) == IF pend = EmptyBag THEN SetToBag({arg}) ELSE pend

\* await modal.props.onSubmit(totp): the call is in flight
Submitted(pend, arg) == pend (+) SetToBag({arg})

\* Mutant: the result is read the wrong way round.
AfterResultInverted(lf, t, successful) == IF successful THEN SetState(lf, t, <<>>) ELSE t

\* if (!successful) modal.setState({ totp: "" })
AfterResult(lf, t, successful) == IF successful THEN t ELSE SetState(lf, t, <<>>)

handleSubmitResult(arg, successful) ==
    LET t == AfterResult(life, totp, successful) IN
    /\ pending' = pending (-) SetToBag({arg})
    /\ totp' = t
    /\ focus' = IF successful THEN focus ELSE FocusAfter(life, widget, focus, t, 0)
    /\ last' = Ev(IF successful THEN "result-ok" ELSE "result-failed", NoCell, arg, <<>>,
                  IF successful THEN <<>> ELSE FocusCalls(life, 0), 0, <<>>, FALSE)
    /\ run' = RunAfter(FALSE, <<>>, <<>>, t)
    /\ UNCHANGED entryFrame

\* Mutant: a rejection is handled like a refusal.
AfterRejectionClears(lf, t) == SetState(lf, t, <<>>)

\* await modal.props.onSubmit(totp) throws: the rest of handleSubmit is skipped
AfterRejection(lf, t) == t

handleSubmitRejected(arg) ==
    /\ pending' = pending (-) SetToBag({arg})
    /\ totp' = AfterRejection(life, totp)
    /\ last' = Ev("result-rejected", NoCell, arg, <<>>, <<>>, 0, <<>>, FALSE)
    /\ run' = RunAfter(FALSE, <<>>, <<>>, AfterRejection(life, totp))
    /\ UNCHANGED focus
    /\ UNCHANGED entryFrame

(***************************************************************************)
(* handleInput                                                             *)
(***************************************************************************)
\* if (isNaN(event.target.value)) { event.preventDefault(); return; }
InputRejected(v) == NumberIsNaN(v)

\* Mutant: the character is put in front of the code.
AppendedInFront(prev, v) == v \o prev

\* prev => ({ ...prev, totp: prev.totp + event.target.value })
Appended(prev, v) == prev \o v

\* Mutant: the comparison is strict.
SubmitDueStrict(t) == Len(t) > TOTP_LENGTH

\* if (totp.length >= TOTP_LENGTH)
SubmitDue(t) == Len(t) >= TOTP_LENGTH

handleInput(i, v) ==
    IF InputRejected(v)
    THEN /\ last' = Ev("input", i, v, <<>>, <<>>, 0, <<>>, FALSE)
         /\ UNCHANGED <<totp, focus, pending, run>>
         /\ UNCHANGED entryFrame
    ELSE LET t    == SetState(life, totp, Appended(totp, v))
             subs == IF SubmitDue(t) THEN <<t>> ELSE <<>> IN
         /\ totp' = t
         /\ focus' = FocusAfter(life, widget, focus, t, i + 1)
         /\ pending' = IF SubmitDue(t) THEN Submitted(pending, t) ELSE pending
         /\ last' = Ev("input", i, v, subs, FocusCalls(life, i + 1), 0, <<>>, FALSE)
         /\ run' = RunAfter(DecimalDigits(v), v, subs, t)
         /\ UNCHANGED entryFrame

(***************************************************************************)
(* handleKeyUp                                                             *)
(***************************************************************************)
\* Mutant: slice(1), the first character is dropped.
SlicedFront(prev) == SubSeq(prev, 2, Len(prev))

\* totp: prev.totp.slice(0, prev.totp.length - 1)
Sliced(prev) == SubSeq(prev, 1, Len(prev) - 1)

\* if (event.key === "Backspace" && i > 0)
KeyHandled(i, key) == key = "Backspace" /\ i > 0

handleKeyUp(i, key) ==
    IF KeyHandled(i, key)
    THEN LET t == SetState(life, totp, Sliced(totp)) IN
         /\ totp' = t
         /\ focus' = FocusAfter(life, widget, focus, t, i - 1)
         /\ last' = Ev("keyup", i, <<key>>, <<>>, FocusCalls(life, i - 1), 0, <<>>, FALSE)
         /\ run' = RunAfter(FALSE, <<>>, <<>>, t)
         /\ UNCHANGED pending
         /\ UNCHANGED entryFrame
    ELSE /\ last' = Ev("keyup", i, <<key>>, <<>>, <<>>, 0, <<>>, FALSE)
         /\ UNCHANGED <<totp, focus, pending, run>>
         /\ UNCHANGED entryFrame

(***************************************************************************)
(* handlePaste                                                             *)
(***************************************************************************)
\* Mutant: no length check.
PasteRejectedNoLength(text) == NumberIsNaN(text)

\* Mutant: only a text of exactly six characters is let through.
PasteRejectedUnlessSix(text) == Len(text) # TOTP_LENGTH \/ NumberIsNaN(text)

\* if (text.length > TOTP_LENGTH || isNaN(Number(text)))
PasteRejected(text) == Len(text) > TOTP_LENGTH \/ NumberIsNaN(text)

\* Mutant: the text is appended to the code.
PastedAppended(prev, text) == prev \o text

\* modal.setState({ totp: text }): the text replaces the code
Pasted(prev, text) == text

handlePaste(text) ==
    IF PasteRejected(text)
    THEN LET t == SetState(life, totp, <<>>) IN
         /\ totp' = t
         /\ focus' = Blurred(focus, t)
         /\ last' = Ev("paste", focus, text, <<>>, <<>>, 1, <<>>, FALSE)
         /\ run' = RunAfter(FALSE, <<>>, <<>>, t)
         /\ UNCHANGED pending
         /\ UNCHANGED entryFrame
    ELSE LET t == SetState(life, totp, Pasted(totp, text)) IN
         /\ totp' = t
         /\ pending' = Submitted(pending, text)
         /\ focus' = Blurred(focus, t)
         /\ last' = Ev("paste", focus, text, <<text>>, <<>>, 0, <<>>, FALSE)
         /\ run' = RunAfter(FALSE, <<>>, <<>>, t)
         /\ UNCHANGED entryFrame

(***************************************************************************)
(* The user and the parent's onSubmit, as far as the handlers see them.    *)
(***************************************************************************)
\* A key or a paste reaches the cell that holds the focus and is enabled.
Editable(i) == Interactive /\ focus = i /\ ~Disabled(totp, i)

\* The cell that has the focus after a click on cell i: a disabled cell takes
\* none, the focus goes to the dialog.
Clicked(t, i) == IF Disabled(t, i) THEN NoCell ELSE i

\* The user clicks on a cell.
Click ==
    \E i \in Cells :
        /\ Interactive /\ focus # Clicked(totp, i)
        /\ focus' = Clicked(totp, i)
        /\ last' = Ev("click", Clicked(totp, i), <<>>, <<>>, <<>>, 0, <<>>, FALSE)
        /\ UNCHANGED <<totp, pending, run>>
        /\ UNCHANGED entryFrame

\* The user types a character into the cell that has the focus.
Input(sc) ==
    \E i \in Cells :
      \E c \in TypedChars :
        /\ Editable(i)
        /\ i < sc.cells
        /\ c \notin EveryCellChars => i < sc.wide
        /\ (~InputRejected(<<c>>) /\ SubmitDue(Appended(totp, <<c>>)))
            => BagCardinality(pending) < sc.pending
        /\ handleInput(i, <<c>>)

KeyUp ==
    \E i \in Cells, key \in Keys :
        /\ Editable(i)
        /\ handleKeyUp(i, key)

\* The user pastes a text into the cell that has the focus.
Paste(sc) ==
    \E i \in Cells, text \in Leading(PasteTextList, sc.pastes) :
        /\ Editable(i)
        /\ ~PasteRejected(text) => BagCardinality(pending) < sc.pending
        /\ handlePaste(text)

Result ==
    \E arg \in BagToSet(pending), successful \in BOOLEAN :
        handleSubmitResult(arg, successful)

\* The promise returned by onSubmit rejects.
Rejected ==
    \E arg \in BagToSet(pending) : handleSubmitRejected(arg)

(***************************************************************************)
(* Lifecycle: componentDidMount, componentDidUpdate, componentWillUnmount. *)
(***************************************************************************)
\* The most recent call on the widget after a handler that made the given calls.
LastOf(calls, prev) == IF calls = <<>> THEN prev ELSE calls[Len(calls)]

\* componentDidMount up to its await: both listeners attached, import started.
componentDidMount ==
    /\ life = "constructed"
    /\ life' = "mounted"
    /\ listeners' = TRUE
    /\ importing' = TRUE
    /\ last' = Ev("mount", NoCell, <<>>, <<>>, <<>>, 0, <<>>, FALSE)
    /\ UNCHANGED <<totp, qrCode, show, type, secretUrl, modal, widget, focus,
                   pending, qrJobs, qrLog, lastCall, run>>

\* Mutant: the widget is left closed whatever props.show is when it is created.
ShowOnMountNever(sh) == <<>>

\* if (this.props.show) this.modal.show()
ShowOnMount(sh) == IF Truthy(sh) THEN <<"show">> ELSE <<>>

\* componentDidMount after its await: the widget is created, and shown when
\* props.show is set at that time.
ImportResolved ==
    /\ importing
    /\ importing' = FALSE
    /\ modal' = "created"
    /\ widget' = IF ShowOnMount(show) # <<>> /\ life # "unmounted"
                 THEN WidgetShow(widget) ELSE widget
    /\ last' = Ev("imported", NoCell, <<>>, <<>>, <<>>, 0, ShowOnMount(show), FALSE)
    /\ lastCall' = LastOf(ShowOnMount(show), lastCall)
    /\ UNCHANGED <<totp, qrCode, show, type, secretUrl, life, listeners, focus,
                   pending, qrJobs, qrLog, run>>

\* componentDidMount at its await when the promise of the import rejects:
\* the rest of componentDidMount is skipped, this.modal stays undefined.
ImportRejected ==
    /\ importing
    /\ importing' = FALSE
    /\ last' = Ev("import-rejected", NoCell, <<>>, <<>>, <<>>, 0, <<>>, FALSE)
    /\ UNCHANGED <<totp, qrCode, show, type, secretUrl, life, modal, listeners,
                   widget, focus, pending, qrJobs, qrLog, lastCall, run>>

\* if (!!prevShow !== !!this.props.show)
ShowChanged(prevShow, curShow) == Truthy(prevShow) # Truthy(curShow)

\* this.modal.show() / this.modal.hide(): a TypeError while this.modal is undefined
DidUpdateCalls(md, prevShow, curShow) ==
    IF ShowChanged(prevShow, curShow) /\ md # "undefined"
    THEN IF Truthy(curShow) THEN <<"show">> ELSE <<"hide">>
    ELSE <<>>
DidUpdateThrows(md, prevShow, curShow) ==
    ShowChanged(prevShow, curShow) /\ md = "undefined"

\* The parent renders the component again, with any props of the scope;
\* componentDidUpdate(prevProps).
componentDidUpdate(sc) ==
    \E sh \in ShowValues, ty \in Leading(TypeList, sc.types) :
      \E url \in Leading(SecretUrlList, sc.urls) :
        LET calls == DidUpdateCalls(modal, show, sh) IN
        /\ life = "mounted"
        /\ show' = sh
        /\ type' = ty
        /\ secretUrl' = url
        /\ widget' = IF calls = <<"show">> THEN WidgetShow(widget)
                     ELSE IF calls = <<"hide">> THEN WidgetHide(widget)
                     ELSE widget
        /\ last' = Ev("update", NoCell, <<>>, <<>>, <<>>, 0, calls,
                      DidUpdateThrows(modal, show, sh))
        /\ lastCall' = LastOf(calls, lastCall)
        /\ UNCHANGED <<totp, qrCode, life, importing, modal, listeners,
                       focus, pending, qrJobs, qrLog, run>>

\* componentWillUnmount: the listeners are removed, then this.modal.dispose(),
\* a TypeError while this.modal is undefined; the framework marks the
\* component unmounted only when the callback returns.
componentWillUnmount ==
    /\ life = "mounted"
    /\ listeners' = FALSE
    /\ IF modal = "undefined"
       THEN /\ life' = "unmountFailed"
            /\ last' = Ev("unmount", NoCell, <<>>, <<>>, <<>>, 0, <<>>, TRUE)
            /\ UNCHANGED <<modal, widget, focus, lastCall>>
       ELSE /\ life' = "unmounted"
            /\ modal' = "disposed"
            /\ widget' = "closed"
            /\ focus' = NoCell
            /\ last' = Ev("unmount", NoCell, <<>>, <<>>, <<>>, 0, <<"dispose">>, FALSE)
            /\ lastCall' = "dispose"
    /\ UNCHANGED <<totp, qrCode, show, type, secretUrl, importing, pending,
                   qrJobs, qrLog, run>>

(***************************************************************************)
(* The widget's events: handleShow (shown.bs.modal), clearTotp             *)
(* (hidden.bs.modal), and the two awaits of handleShow.                    *)
(***************************************************************************)
\* Mutant: the QR code is rendered in every mode.
RendersQrAlways(ty) == TRUE

\* if (this.props.type === "generate")
RendersQr(ty) == ty = "generate"

\* shown.bs.modal; handleShow up to its first await
Shown ==
    /\ widget = "opening"
    /\ widget' = "open"
    /\ IF listeners
       THEN /\ focus' = FocusAfter(life, "open", focus, totp, 0)
            /\ RendersQr(type) => Len(qrJobs) < MaxRenders /\ qrLog.started < MaxShows
            /\ qrJobs' = IF RendersQr(type)
                         THEN Append(qrJobs, [stage |-> "import", url |-> "undefined",
                                              n |-> qrLog.started + 1])
                         ELSE qrJobs
            /\ qrLog' = IF RendersQr(type)
                        THEN [qrLog EXCEPT !.started = @ + 1, !.latest = "undefined"]
                        ELSE qrLog
            /\ last' = Ev("shown", NoCell, <<>>, <<>>, FocusCalls(life, 0), 0, <<>>, FALSE)
       ELSE /\ last' = Ev("shown-unheard", NoCell, <<>>, <<>>, <<>>, 0, <<>>, FALSE)
            /\ UNCHANGED <<focus, qrJobs, qrLog>>
    /\ UNCHANGED <<totp, qrCode, show, type, secretUrl, life, importing, modal,
                   listeners, pending, lastCall, run>>

\* handleShow after await import(...): getSVG(this.props.secretUrl!) is started
QrImported ==
    \E k \in 1..Len(qrJobs) :
        /\ qrJobs[k].stage = "import"
        /\ qrJobs' = [qrJobs EXCEPT ![k] = [@ EXCEPT !.stage = "svg", !.url = secretUrl]]
        /\ qrLog' = IF qrJobs[k].n = qrLog.started
                    THEN [qrLog EXCEPT !.latest = secretUrl] ELSE qrLog
        /\ last' = Ev("qr-imported", NoCell, <<>>, <<>>, <<>>, 0, <<>>, FALSE)
        /\ UNCHANGED <<totp, qrCode, show, type, secretUrl, life, importing, modal,
                       listeners, widget, focus, pending, lastCall, run>>

\* handleShow at await import(...) when the promise rejects: the rest of
\* handleShow is skipped, getSVG is not called and nothing is written.
QrImportRejected ==
    \E k \in 1..Len(qrJobs) :
        /\ qrJobs[k].stage = "import"
        /\ qrJobs' = SubSeq(qrJobs, 1, k - 1) \o SubSeq(qrJobs, k + 1, Len(qrJobs))
        /\ qrLog' = [qrLog EXCEPT !.lost = @ + 1]
        /\ last' = Ev("qr-import-rejected", NoCell, <<>>, <<>>, <<>>, 0, <<>>, FALSE)
        /\ UNCHANGED <<totp, qrCode, show, type, secretUrl, life, importing, modal,
                       listeners, widget, focus, pending, lastCall, run>>

\* URL.createObjectURL(new Blob([qrCode], ...)): a URL of its own for each run
ObjectURL(job) == [url |-> job.url, job |-> job.n]

\* handleShow after await getSVG(...): this.setState({ qrCode: ... }), which
\* the framework ignores on an unmounted component
QrRendered ==
    \E k \in 1..Len(qrJobs) :
        /\ qrJobs[k].stage = "svg"
        /\ qrJobs' = SubSeq(qrJobs, 1, k - 1) \o SubSeq(qrJobs, k + 1, Len(qrJobs))
        /\ qrCode' = SetState(life, qrCode, ObjectURL(qrJobs[k]))
        /\ qrLog' = IF life = "unmounted"
                    THEN [qrLog EXCEPT !.lost = @ + 1]
                    ELSE [qrLog EXCEPT !.written = @ + 1]
        /\ last' = Ev("qr-rendered", NoCell, <<qrJobs[k].url>>, <<>>, <<>>, 0, <<>>, FALSE)
        /\ UNCHANGED <<totp, show, type, secretUrl, life, importing, modal,
                       listeners, widget, focus, pending, lastCall, run>>

\* handleShow at await getSVG(...) when the promise rejects: setState is not
\* reached, nothing is written.
QrRenderRejected ==
    \E k \in 1..Len(qrJobs) :
        /\ qrJobs[k].stage = "svg"
        /\ qrJobs' = SubSeq(qrJobs, 1, k - 1) \o SubSeq(qrJobs, k + 1, Len(qrJobs))
        /\ qrLog' = [qrLog EXCEPT !.lost = @ + 1]
        /\ last' = Ev("qr-render-rejected", NoCell, <<qrJobs[k].url>>, <<>>, <<>>, 0, <<>>, FALSE)
        /\ UNCHANGED <<totp, qrCode, show, type, secretUrl, life, importing, modal,
                       listeners, widget, focus, pending, lastCall, run>>

\* Mutant: the code is kept.
clearTotpKeeps(lf, t) == t

\* clearTotp: this.setState({ totp: "" })
clearTotp(lf, t) == SetState(lf, t, <<>>)

\* hidden.bs.modal
Hidden ==
    /\ widget = "closing"
    /\ widget' = "closed"
    /\ focus' = NoCell
    /\ IF listeners
       THEN /\ totp' = clearTotp(life, totp)
            /\ run' = RunAfter(FALSE, <<>>, <<>>, clearTotp(life, totp))
            /\ last' = Ev("hidden", NoCell, <<>>, <<>>, <<>>, 0, <<>>, FALSE)
       ELSE /\ last' = Ev("hidden-unheard", NoCell, <<>>, <<>>, <<>>, 0, <<>>, FALSE)
            /\ UNCHANGED <<totp, run>>
    /\ UNCHANGED <<qrCode, show, type, secretUrl, life, importing, modal,
                   listeners, pending, qrJobs, qrLog, lastCall>>

(***************************************************************************)
(* Specifications.  Spec: the code entry, with every input of the user and *)
(* of the parent's onSubmit, in a dialog that renders no QR code.  SpecQr: *)
(* the QR code, with every type and every secretUrl, in any order.  Both   *)
(* take every lifecycle callback and every event of the widget; the        *)
(* continuations of handleShow exist in SpecQr only, where renders start.  *)
(***************************************************************************)
Init == Constructed(Scope)

Next ==
    \/ componentDidMount
    \/ ImportResolved
    \/ ImportRejected
    \/ componentDidUpdate(Scope)
    \/ componentWillUnmount
    \/ Shown
    \/ Hidden
    \/ Click
    \/ Input(Scope)
    \/ KeyUp
    \/ Paste(Scope)
    \/ Result
    \/ Rejected

Spec == Init /\ [][Next]_vars

InitQr == Constructed(ScopeQr)

NextQr ==
    \/ componentDidMount
    \/ ImportResolved
    \/ ImportRejected
    \/ componentDidUpdate(ScopeQr)
    \/ componentWillUnmount
    \/ Shown
    \/ QrImported
    \/ QrImportRejected
    \/ QrRendered
    \/ QrRenderRejected
    \/ Hidden
    \/ Click
    \/ Input(ScopeQr)
    \/ KeyUp
    \/ Paste(ScopeQr)
    \/ Result
    \/ Rejected

SpecQr == InitQr /\ [][NextQr]_vars

(***************************************************************************)
(* Properties.                                                             *)
(***************************************************************************)
Enabled(i) == ~Disabled(totp, i)

\* C1: from an empty code, six digits typed one per cell with nothing else in
\* between call onSubmit exactly once, on the sixth digit and not before,
\* with the six digits in typing order.
C1_SixDigitsSubmitOnce ==
    run.clean =>
        /\ Len(run.keys) <= TOTP_LENGTH
        /\ totp = run.keys
        /\ Len(run.keys) < TOTP_LENGTH => run.calls = <<>>
        /\ Len(run.keys) = TOTP_LENGTH => run.calls = <<run.keys>>

C1_Witness ==
    /\ run.clean
    /\ run.keys = <<"2", "1", "1", "1", "1", "1">>
    /\ run.calls = <<run.keys>>
    /\ pending = SetToBag({run.keys})

\* C2 (as claimed): the code in progress holds decimal digits only.
C2_OnlyDigits == AllIn(totp, DecimalDigit)

\* C3: the code in progress is never longer than six characters.
C3_LengthAtMostSix == Len(totp) <= TOTP_LENGTH

C3_Witness ==
    /\ Len(totp) = TOTP_LENGTH
    /\ last.op = "input"
    /\ last.cell = TOTP_LENGTH - 1

\* C4 (as claimed): a pasted text that is longer than six characters or holds
\* a character that is no decimal digit calls onSubmit zero times, shows the
\* notification once and leaves the code empty.
C4_InvalidPasteRejected ==
    (last.op = "paste"
       /\ (Len(last.text) > TOTP_LENGTH \/ ~AllIn(last.text, DecimalDigit)))
    => (last.submitted = <<>> /\ last.toasts = 1 /\ totp = <<>>)

\* C5: a pasted text of at most six characters, all decimal digits, becomes
\* the code, whatever the code was, and is passed to onSubmit exactly once,
\* with no notification and no check of its length.
C5_DigitPasteSubmitted ==
    (last.op = "paste"
       /\ Len(last.text) <= TOTP_LENGTH /\ AllIn(last.text, DecimalDigit))
    => (totp = last.text /\ last.submitted = <<last.text>> /\ last.toasts = 0)

\* A one-digit text pasted into cell 1, over a code of length 1.
C5_Witness ==
    /\ last.op = "paste"
    /\ last.cell = 1
    /\ last.text = <<"2">>
    /\ totp = <<"2">>
    /\ last.submitted = <<<<"2">>>>

\* C6: while the component is mounted, an onSubmit call that resolves false
\* empties the code, asks for the focus on cell 0 and leaves cell 0 the
\* enabled cell; one that resolves true changes neither totp nor qrCode and
\* moves no focus.
C6_ResultHandling ==
    [][ /\ (last'.op = "result-failed" /\ life # "unmounted")
            => /\ totp' = <<>>
               /\ last'.focused = <<0>>
               /\ ~Disabled(totp', 0)
               /\ \A i \in Cells \ {0} : Disabled(totp', i)
        /\ last'.op = "result-ok"
            => /\ totp' = totp
               /\ qrCode' = qrCode
               /\ focus' = focus
               /\ last'.focused = <<>> ]_vars

\* A six-character code was refused while the dialog is open.
C6_Witness ==
    /\ last.op = "result-failed"
    /\ Len(last.text) = TOTP_LENGTH
    /\ life = "mounted"
    /\ widget = "open"
    /\ totp = <<>>
    /\ focus = 0

\* C7 (as claimed): an input event whose character is no decimal digit leaves
\* the code unchanged, moves no focus and calls onSubmit zero times.
C7_NonDigitIgnored ==
    [][ (last'.op = "input" /\ ~DecimalDigits(last'.text))
        => /\ totp' = totp
           /\ focus' = focus
           /\ last'.focused = <<>>
           /\ last'.submitted = <<>> ]_vars

\* C8: a Backspace key-up in cell i, 1 <= i <= 5, with a non-empty code
\* removes the last character and no other, asks for the focus on cell i-1
\* and calls onSubmit zero times.
C8_BackspaceRemovesLast ==
    [][ (last'.op = "keyup" /\ last'.text = <<"Backspace">>
           /\ last'.cell \in 1..(TOTP_LENGTH - 1) /\ totp # <<>>)
        => /\ Len(totp') = Len(totp) - 1
           /\ \A k \in 1..Len(totp') : totp'[k] = totp[k]
           /\ last'.focused = <<last'.cell - 1>>
           /\ last'.submitted = <<>>
           /\ pending' = pending ]_vars

C8_Witness ==
    /\ last.op = "keyup"
    /\ last.text = <<"Backspace">>
    /\ last.cell = 3
    /\ totp = <<"2", "1">>
    /\ focus = 2

\* C9: cell i is enabled iff the code is i characters long, so at most one
\* cell is enabled and none when the code is complete; an accepted key in
\* cell i is stored at position i, where cell i displays it.
C9_LeftToRight ==
    /\ \A i \in Cells : Enabled(i) <=> Len(totp) = i
    /\ Cardinality({i \in Cells : Enabled(i)}) <= 1
    /\ Len(totp) = TOTP_LENGTH => \A i \in Cells : ~Enabled(i)
    /\ (last.op = "input" /\ ~InputRejected(last.text))
        => /\ Len(totp) = last.cell + 1
           /\ Value(totp, last.cell) = last.text

\* A digit typed into cell 1 after a one-digit paste.
C9_Witness ==
    /\ last.op = "input"
    /\ last.cell = 1
    /\ last.text = <<"1">>
    /\ totp = <<"2", "1">>

\* C10 (as claimed): a re-render calls show() exactly once when props.show
\* turns truthy, hide() exactly once when it turns falsy, and neither when
\* its truthiness stays.
C10_ShowHideOncePerChange ==
    [][ last'.op = "update"
        => last'.calls = IF Truthy(show') /\ ~Truthy(show) THEN <<"show">>
                         ELSE IF Truthy(show) /\ ~Truthy(show') THEN <<"hide">>
                         ELSE <<>> ]_vars

\* C11 (as claimed): once the component has been unmounted and the import of
\* the widget library is no longer pending, both listeners are removed and
\* no widget instance created by the component is left undisposed.
C11_UnmountCleansUp ==
    (life \in {"unmounted", "unmountFailed"} /\ ~importing)
    => (~listeners /\ modal # "created")

C13_OneWritePerShown ==
    /\ (type \in GenerateTypes /\ life # "unmounted")
        => qrLog.started = qrLog.written + Len(qrJobs)
    /\ type \in VerifyTypes => qrCode = NoQr

\* C13 (amended): a shown event heard while type is generate starts exactly
\* one QR render; a render ends either in exactly one write of a new qrCode
\* value or, when one of its promises rejects or the component is unmounted
\* by then, in no write; nothing else writes qrCode.  A shown event while
\* type is login or remove starts no render and writes nothing, and qrCode
\* is unset as long as no render has been started.
C13_OneWritePerRender ==
    /\ [](/\ qrLog.started = qrLog.written + qrLog.lost + Len(qrJobs)
          /\ qrLog.started = 0 => qrCode = NoQr)
    /\ [][ /\ (last'.op = "shown" /\ type \in GenerateTypes)
               => /\ qrLog'.started = qrLog.started + 1
                  /\ Len(qrJobs') = Len(qrJobs) + 1
                  /\ qrCode' = qrCode
           /\ (last'.op = "shown" /\ type \in VerifyTypes)
               => (qrLog' = qrLog /\ qrJobs' = qrJobs /\ qrCode' = qrCode)
           /\ (last'.op = "qr-rendered" /\ life # "unmounted")
               => /\ qrLog'.written = qrLog.written + 1
                  /\ qrCode' # qrCode
                  /\ qrCode'.job \in 1..qrLog.started
           /\ qrLog'.lost # qrLog.lost
               => /\ qrCode' = qrCode
                  /\ \/ last'.op \in {"qr-import-rejected", "qr-render-rejected"}
                     \/ last'.op = "qr-rendered" /\ life = "unmounted"
           /\ qrCode' # qrCode => last'.op = "qr-rendered" ]_vars

\* Two shown events in generate mode, both renders written.
C13_Witness ==
    /\ type \in GenerateTypes
    /\ life = "mounted"
    /\ qrLog.started = 2
    /\ qrLog.written = 2
    /\ qrJobs = <<>>
    /\ qrCode # NoQr

\* C14: a hidden event empties the code, whatever the code was and whether
\* or not an onSubmit call is pending, and leaves qrCode as it was.
C14_HiddenClears ==
    [][ last'.op = "hidden" => (totp' = <<>> /\ qrCode' = qrCode) ]_vars

\* The dialog was hidden with a QR code stored and a verification pending.
C14_Witness ==
    /\ last.op = "hidden"
    /\ totp = <<>>
    /\ qrCode # NoQr
    /\ BagCardinality(pending) > 0
    /\ widget = "closed"

\* C15: submissions exclude one another in no way: an accepted paste, and a
\* typed character that completes six, start an onSubmit call whether or not
\* earlier calls are still pending, so that two calls can be pending at the
\* same time.
C15_NoMutualExclusion ==
    [][ /\ (last'.op = "paste" /\ ~PasteRejected(last'.text))
            => pending' = pending (+) SetToBag({last'.text})
        /\ (last'.op = "input" /\ ~InputRejected(last'.text)
              /\ Len(totp') >= TOTP_LENGTH /\ life # "unmounted")
            => pending' = pending (+) SetToBag({totp'}) ]_vars

\* A one-digit paste is pending when a six-digit paste starts a second call.
C15_Witness ==
    /\ last.op = "paste"
    /\ last.text = <<"1", "2", "3", "4", "5", "6">>
    /\ BagCardinality(pending) = 2
    /\ BagIn(<<"2">>, pending)
    /\ BagIn(last.text, pending)

\* C16: a rejected onSubmit promise changes neither the code nor the focus;
\* a code of six characters, with which no cell is enabled, is changed by
\* nothing but a hidden event or the refusal of a call still pending, and
\* by a hidden event alone once no call is pending.
C16_RejectionNoRecovery ==
    [][ /\ last'.op = "result-rejected"
            => /\ totp' = totp
               /\ focus' = focus
               /\ last'.focused = <<>>
               /\ \A i \in Cells : Disabled(totp', i) <=> Disabled(totp, i)
        /\ (Len(totp) = TOTP_LENGTH /\ totp' # totp)
            => /\ \A i \in Cells : Disabled(totp, i)
               /\ last'.op \in {"hidden", "result-failed"}
               /\ pending = EmptyBag => last'.op = "hidden" ]_vars

\* The call made for six typed digits was rejected: the code stays, no cell
\* is enabled and no call is pending.
C16_Witness ==
    /\ last.op = "result-rejected"
    /\ last.text = totp
    /\ Len(totp) = TOTP_LENGTH
    /\ pending = EmptyBag
    /\ widget = "open"
    /\ \A i \in Cells : Disabled(totp, i)

\* C17 (as claimed): when an onSubmit call resolves false, the code at that
\* moment is the argument of that call.
C17_FailureClearsOwnCode ==
    [][ last'.op = "result-failed" => totp = last'.text ]_vars

\* C17 (amended): an onSubmit call that resolves false on a component not
\* unmounted empties the code whatever it is at that moment; the code is the
\* argument of that call when the result arrives directly after the handler
\* that made the call.
C17_FailureClearsWholeCode ==
    [][ /\ (last'.op = "result-failed" /\ life # "unmounted") => totp' = <<>>
        /\ (last'.op = "result-failed" /\ last.submitted = <<last'.text>>)
            => totp = last'.text ]_vars

\* A one-digit paste was refused: the code is empty again, no call is pending
\* and cell 0 has the focus.
C17_Witness ==
    /\ last.op = "result-failed"
    /\ last.text = <<"2">>
    /\ run.clean /\ run.keys = <<>>
    /\ totp = <<>>
    /\ pending = EmptyBag
    /\ focus = 0

\* C18 (as claimed): no lifecycle callback calls show(), hide() or dispose()
\* on this.modal while it is still undefined, that is, none ends in a
\* TypeError.
C18_NoCallBeforeCreation ==
    last.op \in {"update", "unmount"} => ~last.threw

\* C19 (as claimed): in generate mode, once every QR render started by a
\* shown event has completed with its write, the stored qrCode is the one
\* made by the most recent shown event, from the secretUrl that run read.
C19_LatestRenderWins ==
    (/\ type \in GenerateTypes /\ life = "mounted"
     /\ qrJobs = <<>> /\ qrLog.started > 0 /\ qrLog.lost = 0)
    => (qrCode.job = qrLog.started /\ qrCode.url = qrLog.latest)

\* C20 (as claimed): while the dialog is shown, after an accepted input, a
\* handled Backspace, a paste, valid or not, or a refused verification that
\* leaves the code shorter than six, the focus is on the one enabled cell,
\* the cell whose index is the length of the code.
C20_FocusOnEnabledCell ==
    (/\ life = "mounted" /\ widget = "open"
     /\ Len(totp) < TOTP_LENGTH
     /\ \/ last.op \in {"paste", "result-failed"}
        \/ last.op = "input" /\ ~InputRejected(last.text)
        \/ last.op = "keyup" /\ KeyHandled(last.cell, last.text[1]))
    => (focus = Len(totp) /\ Enabled(focus))
====
